---- MODULE Spec2Model ----
(***************************************************************************)
(* Model of @rayhanadev/env (src/src/index.ts): the Env.* combinators,     *)
(* which build Effect Config descriptors, and makeEnv, which combines a    *)
(* shape of descriptors into a Context tag with a `config` and a `Default` *)
(* layer.  Descriptors are data; they are evaluated against the process    *)
(* environment by LoadConfig, which follows the semantics of the Config    *)
(* primitives the source composes (primitive / withDefault / option /      *)
(* mapOrFail / all).                                                       *)
(***************************************************************************)
EXTENDS Integers, Sequences, FiniteSets, TLC

VARIABLES env, last, handles, ctx, provided, got, hist, dirty, reads

vars == <<env, last, handles, ctx, provided, got, hist, dirty, reads>>

(***************************************************************************)
(* Environment variable table                                              *)
(***************************************************************************)
Names == {"A", "B"}

\* marker of a variable that is not in process.env
UNSET == "<unset>"

\* raw strings the combinator-level specification puts into the variables
RawValues ==
  {"true", "yes", "on", "1", "false", "no", "off", "0",
   "Yes", " yes ", "hello", "42"}

\* raw strings the service-level specification puts into variable A and B
SvcValuesA == {"hello"}
SvcValuesB == {"7", "abc"}

(***************************************************************************)
(* Runtime values, errors and results                                      *)
(***************************************************************************)
Str(s)  == [t |-> "str", s |-> s]
Num(n)  == [t |-> "num", n |-> n]
Bool(b) == [t |-> "bool", b |-> b]
None    == [t |-> "none"]
Some(x) == [t |-> "some", x |-> x]

MissingData(path) == [e |-> "MissingData", path |-> path]
InvalidData(path) == [e |-> "InvalidData", path |-> path]
And(l, r)         == [e |-> "And", left |-> l, right |-> r]

Right(v) == [tag |-> "Right", value |-> v]
Left(err) == [tag |-> "Left", error |-> err]

NoResult == [tag |-> "NoResult"]

(***************************************************************************)
(* Config descriptors (the data built by the Config.* constructors)        *)
(***************************************************************************)
Primitive(kind)      == [op |-> "Primitive", kind |-> kind]
Nested(config, name) == [op |-> "Nested", name |-> name, config |-> config]
Constant(value)      == [op |-> "Constant", value |-> value]
Fallback(first, second, condition) ==
  [op |-> "Fallback", first |-> first, second |-> second,
   condition |-> condition]
MapOrFail(original, f) == [op |-> "MapOrFail", original |-> original, f |-> f]
ZipWith(left, right, key) ==
  [op |-> "ZipWith", left |-> left, right |-> right, key |-> key]

Config_string(name)  == Nested(Primitive("string"), name)
Config_number(name)  == Nested(Primitive("number"), name)
Config_boolean(name) == Nested(Primitive("boolean"), name)

\* variant: the default replaces any failure, not only a missing variable
Config_withDefaultAny(self, def) ==
  Fallback(self, Constant(def), "always")

\* Config.withDefault(def): orElseIf(self, succeed(def), isMissingDataOnly)
Config_withDefault(self, def) ==
  Fallback(self, Constant(def), "isMissingDataOnly")

\* variant: any failure becomes none
Config_optionAny(self) ==
  Fallback(MapOrFail(self, [fn |-> "some"]), Constant(None), "always")

\* Config.option: map(Option.some) then orElseIf(succeed(none), isMissingDataOnly)
Config_option(self) ==
  Fallback(MapOrFail(self, [fn |-> "some"]), Constant(None), "isMissingDataOnly")

\* the callback the source passes to Config.mapOrFail in literal / literalOr
IncludesCheck(values) == [fn |-> "includes", values |-> values]

(***************************************************************************)
(* Env.* combinators                                                       *)
(***************************************************************************)
Env_string(name)  == Config_string(name)
Env_number(name)  == Config_number(name)
Env_boolean(name) == Config_boolean(name)

Env_stringOr(name, defaultValue) ==
  Config_withDefault(Config_string(name), defaultValue)

Env_numberOr(name, defaultValue) ==
  Config_withDefault(Config_number(name), defaultValue)

Env_booleanOr(name, defaultValue) ==
  Config_withDefault(Config_boolean(name), defaultValue)

Env_optionalString(name) == Config_option(Config_string(name))

Env_optionalNumber(name) == Config_option(Config_number(name))

Env_literal(name, values) ==
  MapOrFail(Config_string(name), IncludesCheck(values))

\* variant: the allowed-value check runs before the default is substituted
Env_literalOrDefaultLast(name, defaultValue, values) ==
  Config_withDefault(MapOrFail(Config_string(name), IncludesCheck(values)),
                     defaultValue)

Env_literalOr(name, defaultValue, values) ==
  MapOrFail(Config_withDefault(Config_string(name), defaultValue),
            IncludesCheck(values))

(***************************************************************************)
(* Evaluation of a descriptor against the environment                      *)
(***************************************************************************)
\* strings that the number primitive converts, with their numeric value
NumericValue ==
  [s \in {"0", "1", "7", "42"} |->
     CASE s = "0" -> 0 [] s = "1" -> 1 [] s = "7" -> 7 [] s = "42" -> 42]

ParseNumber(text) ==
  IF text \in DOMAIN NumericValue
    THEN Right(Num(NumericValue[text]))
    ELSE Left(InvalidData(<<>>))

\* variant: the vocabulary is matched without regard to case
ParseBooleanLoose(text) ==
  CASE text \in {"true", "yes", "on", "1", "Yes"} -> Right(Bool(TRUE))
    [] text \in {"false", "no", "off", "0"}       -> Right(Bool(FALSE))
    [] OTHER                                       -> Left(InvalidData(<<>>))

ParseBoolean(text) ==
  CASE text \in {"true", "yes", "on", "1"}  -> Right(Bool(TRUE))
    [] text \in {"false", "no", "off", "0"} -> Right(Bool(FALSE))
    [] OTHER                                -> Left(InvalidData(<<>>))

ParseString(text) == Right(Str(text))

ParsePrimitive(kind, text) ==
  CASE kind = "string"  -> ParseString(text)
    [] kind = "number"  -> ParseNumber(text)
    [] kind = "boolean" -> ParseBoolean(text)

RECURSIVE Prefixed(_, _)
\* ConfigError.prefixed: prepend a path to every leaf of an error
Prefixed(path, err) ==
  IF err.e = "And"
    THEN And(Prefixed(path, err.left), Prefixed(path, err.right))
    ELSE [err EXCEPT !.path = path \o err.path]

RECURSIVE IsMissingDataOnly(_)
IsMissingDataOnly(err) ==
  CASE err.e = "MissingData" -> TRUE
    [] err.e = "And" -> IsMissingDataOnly(err.left) /\ IsMissingDataOnly(err.right)
    [] OTHER -> FALSE

\* the provider's lookup of one variable (process.env) and parse of its text
LoadPrimitive(path, kind, e) ==
  LET name == path[Len(path)] IN
  IF Len(path) = 0 \/ e[name] = UNSET
    THEN Left(MissingData(path))
    ELSE LET r == ParsePrimitive(kind, e[name]) IN
         IF r.tag = "Left" THEN Left(Prefixed(path, r.error)) ELSE r

AppendConfigPath(path, config) ==
  IF config.op = "Nested" THEN Append(path, config.name) ELSE path

\* variant: the value is trimmed before it is compared
IncludesLoose(values, s) ==
  \E i \in DOMAIN values : values[i] = s \/ (s = " yes " /\ values[i] = "yes")

\* values.includes(s)
Includes(values, s) == \E i \in DOMAIN values : values[i] = s

ApplyMapOrFail(f, a) ==
  CASE f.fn = "includes" ->
         IF Includes(f.values, a.s)
           THEN Right(a)
           ELSE Left(InvalidData(<<>>))
    [] f.fn = "some"   -> Right(Some(a))
    [] f.fn = "record" -> Right([k \in {f.key} |-> a])

\* variant: the record built so far is not spread into the new one
SpreadDropping(record, key, value) == [k \in {key} |-> value]

\* (record, value) => ({ ...record, [key]: value })
Spread(record, key, value) ==
  [k \in DOMAIN record \cup {key} |-> IF k = key THEN value ELSE record[k]]

\* variant: the first failure wins and the second is dropped
ZipResultsFirstWins(l, r, key) ==
  CASE l.tag = "Left"                       -> l
    [] l.tag = "Right" /\ r.tag = "Left"  -> r
    [] l.tag = "Right" /\ r.tag = "Right" -> Right(Spread(l.value, key, r.value))

ZipResults(l, r, key) ==
  CASE l.tag = "Left" /\ r.tag = "Left"   -> Left(And(l.error, r.error))
    [] l.tag = "Left" /\ r.tag = "Right"  -> l
    [] l.tag = "Right" /\ r.tag = "Left"  -> r
    [] l.tag = "Right" /\ r.tag = "Right" -> Right(Spread(l.value, key, r.value))

\* the predicate on errors that an orElseIf carries
Holds(condition, err) ==
  CASE condition = "isMissingDataOnly" -> IsMissingDataOnly(err)
    [] condition = "always"            -> TRUE

FallbackResult(first, second, condition) ==
  IF first.tag = "Left" /\ Holds(condition, first.error) THEN second ELSE first

RECURSIVE FromFlatLoop(_, _, _)
FromFlatLoop(prefix, c, e) ==
  CASE c.op = "Primitive" -> LoadPrimitive(prefix, c.kind, e)
    [] c.op = "Nested"    -> FromFlatLoop(Append(prefix, c.name), c.config, e)
    [] c.op = "Constant"  -> Right(c.value)
    [] c.op = "Fallback"  ->
         FallbackResult(FromFlatLoop(prefix, c.first, e),
                        FromFlatLoop(prefix, c.second, e), c.condition)
    [] c.op = "MapOrFail" ->
         LET r == FromFlatLoop(prefix, c.original, e) IN
         IF r.tag = "Left" THEN r
         ELSE LET m == ApplyMapOrFail(c.f, r.value) IN
              IF m.tag = "Left"
                THEN Left(Prefixed(AppendConfigPath(prefix, c.original), m.error))
                ELSE m
    [] c.op = "ZipWith"   ->
         ZipResults(FromFlatLoop(prefix, c.left, e),
                    FromFlatLoop(prefix, c.right, e), c.key)

\* evaluation of a descriptor against the environment table e
LoadConfig(c, e) == FromFlatLoop(<<>>, c, e)

RECURSIVE ConfigNames(_)
\* the variables an evaluation of the descriptor looks up
ConfigNames(c) ==
  CASE c.op = "Primitive" -> {}
    [] c.op = "Nested"    -> {c.name} \cup ConfigNames(c.config)
    [] c.op = "Constant"  -> {}
    [] c.op = "Fallback"  -> ConfigNames(c.first) \cup ConfigNames(c.second)
    [] c.op = "MapOrFail" -> ConfigNames(c.original)
    [] c.op = "ZipWith"   -> ConfigNames(c.left) \cup ConfigNames(c.right)

(***************************************************************************)
(* makeEnv                                                                 *)
(***************************************************************************)
\* a shape is the sequence of its <<key, descriptor>> entries
RECURSIVE StructLoop(_, _, _)
StructLoop(result, entries, i) ==
  IF i > Len(entries) THEN result
  ELSE StructLoop(ZipWith(result, entries[i][2], entries[i][1]), entries, i + 1)

\* Config.all on a record: fold of zipWith over the entries
Config_all(shape) ==
  StructLoop(MapOrFail(shape[1][2], [fn |-> "record", key |-> shape[1][1]]),
             shape, 2)

Context_GenericTag(id) == [key |-> id]

Layer_effect(tag, config) == [tag |-> tag, effect |-> config]

makeEnv(id, shape) ==
  LET config == Config_all(shape)
      tag    == Context_GenericTag(id)
  IN  [key |-> tag.key, config |-> config, Default |-> Layer_effect(tag, config)]

(***************************************************************************)
(* The embedding program: calls of the library and the environment         *)
(***************************************************************************)
Ids == {"AppEnv", "DbEnv"}

ShapeAB == << <<"a", Env_string("A")>>, <<"b", Env_numberOr("B", Num(5))>> >>
ShapeT  == << <<"timeout", Env_optionalNumber("B")>> >>
Shapes  == {ShapeAB, ShapeT}

\* the makeEnv calls of the program: two of them give the same identifier
MakeEnvCalls == {<<"AppEnv", ShapeAB>>, <<"AppEnv", ShapeT>>, <<"DbEnv", ShapeT>>}

ShapeKeys(shape) == {shape[i][1] : i \in DOMAIN shape}
FieldConfig(shape, k) ==
  LET i == CHOOSE j \in DOMAIN shape : shape[j][1] = k IN shape[i][2]

\* calls of single combinators: [fn, name, def, values]
NoArg == [t |-> "noarg"]
Call(fn, name, def, values) ==
  [fn |-> fn, name |-> name, def |-> def, values |-> values]

Allowed == <<"yes", "no">>

Calls ==
  UNION {
    { Call("string", n, NoArg, <<>>),
      Call("number", n, NoArg, <<>>),
      Call("boolean", n, NoArg, <<>>),
      Call("stringOr", n, Str("localhost"), <<>>),
      Call("numberOr", n, Num(5), <<>>),
      Call("booleanOr", n, Bool(TRUE), <<>>),
      Call("booleanOr", n, Bool(FALSE), <<>>),
      Call("optionalString", n, NoArg, <<>>),
      Call("optionalNumber", n, NoArg, <<>>),
      Call("literal", n, NoArg, Allowed),
      Call("literalOr", n, Str("no"), Allowed),
      Call("literalOr", n, Str("maybe"), Allowed) } : n \in Names }

\* the descriptor a call constructs
EnvCall(call) ==
  CASE call.fn = "string"         -> Env_string(call.name)
    [] call.fn = "number"         -> Env_number(call.name)
    [] call.fn = "boolean"        -> Env_boolean(call.name)
    [] call.fn = "stringOr"       -> Env_stringOr(call.name, call.def)
    [] call.fn = "numberOr"       -> Env_numberOr(call.name, call.def)
    [] call.fn = "booleanOr"      -> Env_booleanOr(call.name, call.def)
    [] call.fn = "optionalString" -> Env_optionalString(call.name)
    [] call.fn = "optionalNumber" -> Env_optionalNumber(call.name)
    [] call.fn = "literal"        -> Env_literal(call.name, call.values)
    [] call.fn = "literalOr"      -> Env_literalOr(call.name, call.def, call.values)

NoLast    == [fn |-> "none"]
NoHist    == [via |-> "none"]
NoGot     == [tag |-> "NoGot"]
NoService == [t |-> "absent"]

EmptyContext == [k \in Ids |-> NoService]

Init ==
  /\ env = [n \in Names |-> UNSET]
  /\ last = NoLast
  /\ handles = {}
  /\ ctx = EmptyContext
  /\ provided = {}
  /\ got = NoGot
  /\ hist = NoHist
  /\ dirty = FALSE
  /\ reads = {}

\* the host process sets a variable
SetEnv(n, v) ==
  /\ env[n] # v
  /\ env' = [env EXCEPT ![n] = v]
  /\ dirty' = TRUE
  /\ UNCHANGED <<last, handles, ctx, provided, got, hist, reads>>

\* the host process deletes a variable
UnsetEnv(n) ==
  /\ env[n] # UNSET
  /\ env' = [env EXCEPT ![n] = UNSET]
  /\ dirty' = TRUE
  /\ UNCHANGED <<last, handles, ctx, provided, got, hist, reads>>

\* a single combinator is called and its descriptor evaluated
EvalCall(call) ==
  /\ last' = [fn |-> call.fn, call |-> call, raw |-> env[call.name],
              res |-> LoadConfig(EnvCall(call), env)]
  /\ reads' = reads \cup ConfigNames(EnvCall(call))
  /\ UNCHANGED <<env, handles, ctx, provided, got, hist, dirty>>

\* variant: makeEnv evaluates the composite descriptor when it is called
MakeEnvCallEager(id, shape) ==
  /\ makeEnv(id, shape) \notin handles
  /\ handles' = handles \cup {makeEnv(id, shape)}
  /\ hist' = [via |-> "config", h |-> makeEnv(id, shape),
              res |-> LoadConfig(makeEnv(id, shape).config, env),
              prev |-> NoResult, changed |-> FALSE]
  /\ reads' = reads \cup ConfigNames(makeEnv(id, shape).config)
  /\ UNCHANGED <<env, last, ctx, provided, got, dirty>>

\* module initialisation calls makeEnv(id, shape)
MakeEnvCall(id, shape) ==
  /\ makeEnv(id, shape) \notin handles
  /\ handles' = handles \cup {makeEnv(id, shape)}
  /\ UNCHANGED <<env, last, ctx, provided, got, hist, dirty, reads>>

\* the program evaluates h.config directly
EvalConfig(h) ==
  /\ h \in handles
  /\ hist' = [via |-> "config", h |-> h, res |-> LoadConfig(h.config, env),
              prev |-> NoResult, changed |-> FALSE]
  /\ reads' = reads \cup ConfigNames(h.config)
  /\ dirty' = FALSE
  /\ UNCHANGED <<env, last, handles, ctx, provided, got>>

\* variant: the first activation's result is kept and returned again
RunLayerMemo(layer, e, previous) ==
  IF previous # NoResult THEN previous ELSE LoadConfig(layer.effect, e)

\* one activation of a layer: its effect is run against the environment;
\* previous is the result of the preceding activation, which nothing keeps
RunLayer(layer, e, previous) == LoadConfig(layer.effect, e)

\* the context after a built layer's service is merged into it; a failed
\* build fails the whole provide, and no context is left
MergeContext(context, tag, r) ==
  IF r.tag = "Right"
    THEN [context EXCEPT ![tag.key] = r.value]
    ELSE EmptyContext

PreviousResult(h) ==
  IF hist.via = "Default" /\ hist.h = h THEN hist.res ELSE NoResult

\* Effect.provide(h.Default): the layer is built before the program body runs
ProvideDefault(h) ==
  /\ h \in handles
  /\ got = NoGot
  /\ LET r == RunLayer(h.Default, env, PreviousResult(h)) IN
       /\ hist' = [via |-> "Default", h |-> h, res |-> r,
                   prev |-> PreviousResult(h), changed |-> dirty]
       /\ ctx' = MergeContext(ctx, h.Default.tag, r)
       /\ provided' = IF r.tag = "Right" THEN provided \cup {h} ELSE {}
  /\ reads' = reads \cup ConfigNames(h.Default.effect)
  /\ dirty' = FALSE
  /\ UNCHANGED <<env, last, handles, got>>

\* Context lookup by the tag's key
Context_get(context, tag) == context[tag.key]

\* yield* h inside the program body
Request(h) ==
  /\ h \in provided
  /\ Context_get(ctx, h) # NoService
  /\ got' = [tag |-> "Got", h |-> h, value |-> Context_get(ctx, h)]
  /\ UNCHANGED <<env, last, handles, ctx, provided, hist, dirty, reads>>

\* the program run ends; its context is dropped
RunEnd ==
  /\ ctx # EmptyContext \/ got # NoGot
  /\ ctx' = EmptyContext
  /\ provided' = {}
  /\ got' = NoGot
  /\ UNCHANGED <<env, last, handles, hist, dirty, reads>>

AllHandles == {makeEnv(c[1], c[2]) : c \in MakeEnvCalls}

\* combinator level: single descriptors evaluated against a changing table
NextEnv ==
  \/ \E v \in RawValues : SetEnv("A", v)
  \/ \E v \in SvcValuesB : SetEnv("B", v)
  \/ \E n \in Names : UnsetEnv(n)
  \/ \E call \in Calls : EvalCall(call)

SpecEnv == Init /\ [][NextEnv]_vars

\* service level: handles built by makeEnv, provided and requested
Next ==
  \/ \E v \in SvcValuesA : SetEnv("A", v)
  \/ \E v \in SvcValuesB : SetEnv("B", v)
  \/ \E n \in Names : UnsetEnv(n)
  \/ \E c \in MakeEnvCalls : MakeEnvCall(c[1], c[2])
  \/ \E h \in AllHandles : EvalConfig(h)
  \/ \E h \in AllHandles : ProvideDefault(h)
  \/ \E h \in AllHandles : Request(h)
  \/ RunEnd

Spec == Init /\ [][Next]_vars

(***************************************************************************)
(* Properties of the combinators (checked under SpecEnv)                   *)
(***************************************************************************)
Truthy == {"true", "yes", "on", "1"}
Falsy  == {"false", "no", "off", "0"}

IsMissing(res) == res.tag = "Left" /\ res.error.e = "MissingData"
IsInvalid(res) == res.tag = "Left" /\ res.error.e = "InvalidData"
InAllowed(values, raw) == \E i \in DOMAIN values : values[i] = raw

\* C7: boolean and booleanOr, on a set variable, yield true for exactly
\* "true", "yes", "on", "1", false for exactly "false", "no", "off", "0",
\* and fail with InvalidData for every other string; boolean fails with
\* Missing when the variable is unset.
C7_BooleanVocabulary ==
  last.fn \in {"boolean", "booleanOr"} =>
    /\ last.raw \in Truthy => last.res = Right(Bool(TRUE))
    /\ last.raw \in Falsy  => last.res = Right(Bool(FALSE))
    /\ last.raw \notin Truthy \cup Falsy \cup {UNSET} => IsInvalid(last.res)
    /\ last.res = Right(Bool(TRUE)) /\ last.raw # UNSET => last.raw \in Truthy
    /\ last.res = Right(Bool(FALSE)) /\ last.raw # UNSET => last.raw \in Falsy
    /\ last.fn = "boolean" /\ last.raw = UNSET => IsMissing(last.res)

C7_Witness ==
  /\ last.fn = "booleanOr"
  /\ last.raw = "Yes"
  /\ IsInvalid(last.res)

\* C8: literal succeeds if and only if the variable is set to a string
\* exactly equal to one of the values, and then yields that string
\* unchanged; every other set value (near-matches included) fails with
\* InvalidData, and an unset variable fails with Missing.
C8_LiteralExact ==
  last.fn = "literal" =>
    /\ last.res.tag = "Right" <=>
         (last.raw # UNSET /\ InAllowed(last.call.values, last.raw))
    /\ last.res.tag = "Right" => last.res.value = Str(last.raw)
    /\ last.raw # UNSET /\ ~InAllowed(last.call.values, last.raw)
         => IsInvalid(last.res)
    /\ last.raw = UNSET => IsMissing(last.res)

C8_Witness ==
  /\ last.fn = "literal"
  /\ last.raw = " yes "
  /\ IsInvalid(last.res)

\* C2 (as stated): literalOr on an unset variable yields the default
\* without checking it against the values, and fails with InvalidData only
\* when the variable is set to a value not among the values.
C2_DefaultUnchecked ==
  last.fn = "literalOr" =>
    /\ last.raw = UNSET => last.res = Right(last.call.def)
    /\ last.res.tag = "Left" =>
         (IsInvalid(last.res) /\ last.raw # UNSET
            /\ ~InAllowed(last.call.values, last.raw))

\* C2 (amended): literalOr substitutes the default for an unset variable and
\* then checks the substituted value like any other: it yields the default
\* when the variable is unset and the default is one of the values, yields
\* the raw string when the variable is set to one of the values, and fails
\* with InvalidData otherwise (a set value outside the values, or an unset
\* variable with a default outside the values).
C2_DefaultChecked ==
  last.fn = "literalOr" =>
    LET effective == IF last.raw = UNSET THEN last.call.def
                                         ELSE Str(last.raw)
    IN  IF InAllowed(last.call.values, effective.s)
          THEN last.res = Right(effective)
          ELSE IsInvalid(last.res)

C2_Witness ==
  /\ last.fn = "literalOr"
  /\ last.raw = UNSET
  /\ ~InAllowed(last.call.values, last.call.def.s)
  /\ IsInvalid(last.res)

\* C6: stringOr yields the default when unset and the raw string when set,
\* and never fails; numberOr and booleanOr yield the default when unset,
\* the parsed value when set and parseable, and fail with InvalidData (not
\* the default) when set but not parseable.
C6_DefaultOnlyWhenUnset ==
  /\ last.fn = "stringOr" =>
       last.res = IF last.raw = UNSET THEN Right(last.call.def)
                                      ELSE Right(Str(last.raw))
  /\ last.fn = "numberOr" =>
       last.res = IF last.raw = UNSET THEN Right(last.call.def)
                  ELSE IF last.raw \in DOMAIN NumericValue
                         THEN Right(Num(NumericValue[last.raw]))
                         ELSE Left(InvalidData(<<last.call.name>>))
  /\ last.fn = "booleanOr" =>
       last.res = IF last.raw = UNSET THEN Right(last.call.def)
                  ELSE IF last.raw \in Truthy THEN Right(Bool(TRUE))
                  ELSE IF last.raw \in Falsy THEN Right(Bool(FALSE))
                  ELSE Left(InvalidData(<<last.call.name>>))

C6_Witness ==
  /\ last.fn = "numberOr"
  /\ last.raw = "hello"
  /\ IsInvalid(last.res)

\* C9: optionalString yields present(raw string) when set and absent when
\* unset and never fails; optionalNumber yields present(number) when set
\* and parseable, absent when unset, and fails with InvalidData when set
\* but not parseable.
C9_OptionalOnlyWhenUnset ==
  /\ last.fn = "optionalString" =>
       last.res = IF last.raw = UNSET THEN Right(None)
                                      ELSE Right(Some(Str(last.raw)))
  /\ last.fn = "optionalNumber" =>
       /\ last.raw = UNSET => last.res = Right(None)
       /\ last.raw \in DOMAIN NumericValue =>
            last.res = Right(Some(Num(NumericValue[last.raw])))
       /\ last.raw \notin DOMAIN NumericValue \cup {UNSET} =>
            IsInvalid(last.res)

C9_Witness ==
  /\ last.fn = "optionalNumber"
  /\ last.raw = "abc"
  /\ IsInvalid(last.res)

(***************************************************************************)
(* Properties of makeEnv handles (checked under Spec)                      *)
(***************************************************************************)
\* the latest evaluation of a handle's config was made on the present table
Evaluated == hist.via # "none" /\ ~dirty

HandleAB == makeEnv("AppEnv", ShapeAB)

\* C1 (as stated): for {a: string A, b: numberOr B 5}, with A unset the
\* evaluation fails with the Missing error of A whatever B is; with
\* A = "hello" and B unset it yields {a: "hello", b: 5}.
C1_MissingWhateverB ==
  (Evaluated /\ hist.h = HandleAB) =>
    /\ env["A"] = UNSET => hist.res = Left(MissingData(<<"A">>))
    /\ (env["A"] = "hello" /\ env["B"] = UNSET) =>
         hist.res = Right([a |-> Str("hello"), b |-> Num(5)])

\* C1 (amended): with A unset the evaluation fails with an error that
\* includes the Missing error of A: that error alone when B is unset or a
\* parseable number, and the And of it with the InvalidData error of B when
\* B is set to an unparseable string; with A = "hello" and B unset it
\* yields {a: "hello", b: 5}.
C1_MissingAccumulated ==
  (Evaluated /\ hist.h = HandleAB) =>
    /\ env["A"] = UNSET =>
         hist.res = IF env["B"] = UNSET \/ env["B"] \in DOMAIN NumericValue
                      THEN Left(MissingData(<<"A">>))
                      ELSE Left(And(MissingData(<<"A">>), InvalidData(<<"B">>)))
    /\ (env["A"] = "hello" /\ env["B"] = UNSET) =>
         hist.res = Right([a |-> Str("hello"), b |-> Num(5)])

C1_Witness ==
  /\ Evaluated /\ hist.h = HandleAB
  /\ env["A"] = UNSET /\ env["B"] = "abc"
  /\ hist.res.tag = "Left" /\ hist.res.error.e = "And"

C4_AllOrNothing ==
  Evaluated =>
    \A c \in MakeEnvCalls :
      hist.h = makeEnv(c[1], c[2]) =>
        LET shape == c[2]
            field(k) == LoadConfig(FieldConfig(shape, k), env)
        IN  /\ hist.res.tag \in {"Right", "Left"}
            /\ hist.res.tag = "Right" <=>
                 \A k \in ShapeKeys(shape) : field(k).tag = "Right"
            /\ hist.res.tag = "Right" =>
                 /\ DOMAIN hist.res.value = ShapeKeys(shape)
                 /\ \A k \in ShapeKeys(shape) :
                      hist.res.value[k] = field(k).value
            /\ hist.res.tag = "Left" =>
                 /\ "value" \notin DOMAIN hist.res
                 /\ hist.via = "Default" => Context_get(ctx, hist.h) = NoService

C4_Witness ==
  /\ Evaluated /\ hist.h = HandleAB /\ hist.via = "Default"
  /\ env["A"] = "hello" /\ env["B"] = "abc"
  /\ hist.res.tag = "Left"

\* C5: the result of an evaluation depends only on the environment at that
\* moment: an evaluation that follows one of the same handle with no change
\* of the environment in between yields an equal result, and the latest
\* result is the one the present environment gives, also after a variable
\* was changed between two activations of Default.
C5_ResultFollowsEnv ==
  /\ Evaluated => hist.res = LoadConfig(hist.h.config, env)
  /\ (hist.via = "Default" /\ hist.prev # NoResult /\ ~hist.changed) =>
       hist.res = hist.prev

\* a second activation of Default, made after a change of the environment,
\* whose result differs from the first activation's
C5_Witness ==
  /\ Evaluated /\ hist.via = "Default" /\ hist.h = HandleAB
  /\ hist.prev # NoResult /\ hist.changed
  /\ hist.prev.tag = "Right" /\ hist.res.tag = "Right"
  /\ hist.res # hist.prev

====
